---- MODULE Spec2Model ----
(***************************************************************************)
(* caldav-anon: the two calendar services of the repository.               *)
(*   main.rs            the Anonymize service                              *)
(*   bin/ics-ignore.rs  the IgnoreMatching service (uses lib.rs)           *)
(* A Rust String is a sequence of one-character strings, so that           *)
(* concatenation, prefix tests and line splitting are computed.            *)
(* Option<T> is a sequence of length at most one: None is <<>>.            *)
(***************************************************************************)
EXTENDS Integers, Sequences, FiniteSets, TLC

VARIABLES config, remote, pc, path, fetched, cal, res, response, prop, rendered

vars == <<config, remote, pc, path, fetched, cal, res, response, prop, rendered>>

None == <<>>

Some(x) == <<x>>

(* ---------------- property names matched by the services --------------- *)
n_CALSCALE == <<"C","A","L","S","C","A","L","E">>

n_METHOD == <<"M","E","T","H","O","D">>

n_PRODID == <<"P","R","O","D","I","D">>

n_REFRESH_INTERVAL == <<"R","E","F","R","E","S","H","-","I","N","T","E","R","V","A","L">>

n_VERSION == <<"V","E","R","S","I","O","N">>

n_TZID == <<"T","Z","I","D">>

n_DTSTART == <<"D","T","S","T","A","R","T">>

n_RRULE == <<"R","R","U","L","E">>

n_TZNAME == <<"T","Z","N","A","M","E">>

n_TZOFFSETFROM == <<"T","Z","O","F","F","S","E","T","F","R","O","M">>

n_TZOFFSETTO == <<"T","Z","O","F","F","S","E","T","T","O">>

n_DTEND == <<"D","T","E","N","D">>

n_EXDATE == <<"E","X","D","A","T","E">>

n_EXRULE == <<"E","X","R","U","L","E">>

n_RDATE == <<"R","D","A","T","E">>

n_SEQUENCE == <<"S","E","Q","U","E","N","C","E">>

n_STATUS == <<"S","T","A","T","U","S">>

n_UID == <<"U","I","D">>

n_CREATED == <<"C","R","E","A","T","E","D">>

n_DTSTAMP == <<"D","T","S","T","A","M","P">>

n_DESCRIPTION == <<"D","E","S","C","R","I","P","T","I","O","N">>

n_LAST_MODIFIED == <<"L","A","S","T","-","M","O","D","I","F","I","E","D">>

n_LOCATION == <<"L","O","C","A","T","I","O","N">>

n_SUMMARY == <<"S","U","M","M","A","R","Y">>

n_URL == <<"U","R","L">>

(* ---------------- string literals of the services ------------------- *)
s_BEGIN_VCALENDAR == <<"B","E","G","I","N",":","V","C","A","L","E","N","D","A","R","\n">>

s_HEADER_MAIN == <<"B","E","G","I","N",":","V","C","A","L","E","N","D","A","R","\n","V","E","R","S","I","O","N",":","2",".","0","\n","P","R","O","D","I","D",":","C","A","L","D","A","V","-","A","N","O","N","\n">>

s_END_VCALENDAR == <<"E","N","D",":","V","C","A","L","E","N","D","A","R","\n">>

s_BEGIN_VTIMEZONE == <<"B","E","G","I","N",":","V","T","I","M","E","Z","O","N","E","\n">>

s_END_VTIMEZONE == <<"E","N","D",":","V","T","I","M","E","Z","O","N","E","\n">>

s_BEGIN_STANDARD == <<"B","E","G","I","N",":","S","T","A","N","D","A","R","D","\n">>

s_END_STANDARD == <<"E","N","D",":","S","T","A","N","D","A","R","D","\n">>

s_BEGIN_VEVENT == <<"B","E","G","I","N",":","V","E","V","E","N","T","\n">>

s_END_VEVENT == <<"E","N","D",":","V","E","V","E","N","T","\n">>

s_SUMMARY_COLON == <<"S","U","M","M","A","R","Y",":">>

s_DTSTAMP_LINE == <<"D","T","S","T","A","M","P",":","2","0","2","0","0","1","0","1","T","0","0","0","0","0","1","Z","\n">>

s_UID_COLON == <<"U","I","D",":">>

s_2_0 == <<"2",".","0">>

s_X_DASH == <<"X","-">>

(* ---------------- str::starts_with -------------------------------------- *)
starts_with(s, prefix) ==
    /\ Len(s) >= Len(prefix)
    /\ SubSeq(s, 1, Len(prefix)) = prefix

(* ---------------- keyed digest of the UID -------------------------------- *)
(* hmac::Hmac<sha2::Sha256> followed by hex::encode.  The digest is         *)
(* narrowed to two bytes;        the construction keeps the shape of HMAC: *)
(* an inner hash of the padded key and the message, an outer hash of the    *)
(* padded key and the inner digest, then two lower-case hex digits a byte.  *)
Alphabet ==
    <<"a","b","c","d","e","f","g","h","i","j","k","l","m","n","o","p","q",
      "r","s","t","u","v","w","x","y","z","A","B","C","D","E","F","G","H",
      "I","J","K","L","M","N","O","P","Q","R","S","T","U","V","W","X","Y",
      "Z","0","1","2","3","4","5","6","7","8","9","-",".",":",";","=",",",
      "\"","/","@"," ","\n">>

as_bytes(s) ==
    [i \in 1..Len(s) |-> CHOOSE k \in 1..Len(Alphabet) : Alphabet[k] = s[i]]

DigestMod == 256 * 256

RECURSIVE Compress(_, _)
Compress(h, bytes) ==
    IF bytes = <<>> THEN h
    ELSE Compress((h * 31 + Head(bytes)) % DigestMod, Tail(bytes))

Pad(key, pad) == [i \in 1..Len(key) |-> (key[i] + pad) % 256]

DigestToBytes(h) == <<h \div 256, h % 256>>

Hmac(key, msg) ==
    LET inner == Compress(7, Pad(key, 54) \o msg)
    IN  Compress(7, Pad(key, 92) \o DigestToBytes(inner))

HexDigits ==
    <<"0","1","2","3","4","5","6","7","8","9","a","b","c","d","e","f">>

RECURSIVE hex_encode(_)
hex_encode(bytes) ==
    IF bytes = <<>> THEN <<>>
    ELSE <<HexDigits[(Head(bytes) \div 16) + 1], HexDigits[(Head(bytes) % 16) + 1]>>
         \o hex_encode(Tail(bytes))

hash_uid(seed, value) ==
    hex_encode(DigestToBytes(Hmac(as_bytes(seed), as_bytes(value))))

(* ---------------- build_property, main.rs -------------------------------- *)
RECURSIVE JoinRest(_, _)
JoinRest(vs, sep) ==
    IF vs = <<>> THEN <<>>
    ELSE sep \o Head(vs) \o JoinRest(Tail(vs), sep)

RECURSIVE RenderParams(_)
RenderParams(params) ==
    IF params = <<>> THEN <<>>
    ELSE LET p == Head(params)
         IN  <<";">> \o p[1] \o <<"=">> \o p[2][1]
             \o JoinRest(Tail(p[2]), <<",">>)
             \o RenderParams(Tail(params))

build_property(name, params, value) ==
    name
    \o (IF params # None THEN RenderParams(params[1]) ELSE <<>>)
    \o <<":">>
    \o (IF value # None THEN value[1] ELSE <<>>)
    \o <<"\n">>

(* ---------------- build_property, lib.rs --------------------------------- *)
RECURSIVE LibRenderParams(_)
LibRenderParams(params) ==
    IF params = <<>> THEN <<>>
    ELSE LET p == Head(params)
         IN  <<";">> \o p[1] \o <<"=", "\"">> \o p[2][1]
             \o JoinRest(Tail(p[2]), <<"\"", ",", "\"">>)
             \o <<"\"">>
             \o LibRenderParams(Tail(params))

lib_build_property(name, params, value) ==
    name
    \o (IF params # None THEN LibRenderParams(params[1]) ELSE <<>>)
    \o <<":", "\"">>
    \o (IF value # None THEN value[1] ELSE <<>>)
    \o <<"\"", "\n">>

(* ---------------- results of the fallible steps -------------------------- *)
(* anyhow::Result<()> together with the buffer behind `res: &mut String`.   *)
Ok(r) == [ok |-> TRUE, res |-> r, err |-> "none"]

Bail(r, e) == [ok |-> FALSE, res |-> r, err |-> e]

(* a slip: the switch is not consulted and the property is always ignored *)
unknown_property_always_ignored(type, cfg, r) == Ok(r)

(* unknown_property!: warn and go on, or bail *)
unknown_property(type, cfg, r) ==
    IF cfg.ignore_unknown_properties
    THEN Ok(r)
    ELSE Bail(r, "unknown " \o type \o " property")

(* ---------------- main.rs: the Anonymize service ------------------------- *)
(* a slip: a VERSION of any value is censored like the other properties *)
calendar_property_any_version(p, cfg, r) ==
    IF p.name = n_CALSCALE
        THEN Ok(r \o build_property(n_CALSCALE, p.params, p.value))
    ELSE IF p.name = n_METHOD THEN Ok(r)
    ELSE IF p.name = n_PRODID THEN Ok(r)
    ELSE IF p.name = n_REFRESH_INTERVAL THEN Ok(r)
    ELSE IF p.name = n_VERSION THEN Ok(r)
    ELSE IF starts_with(p.name, s_X_DASH) THEN Ok(r)
    ELSE unknown_property("calendar", cfg, r)

calendar_property(p, cfg, r) ==
    IF p.name = n_CALSCALE
        THEN Ok(r \o build_property(n_CALSCALE, p.params, p.value))
    ELSE IF p.name = n_METHOD THEN Ok(r)
    ELSE IF p.name = n_PRODID THEN Ok(r)
    ELSE IF p.name = n_REFRESH_INTERVAL THEN Ok(r)
    ELSE IF p.name = n_VERSION /\ p.value = Some(s_2_0) THEN Ok(r)
    ELSE IF starts_with(p.name, s_X_DASH) THEN Ok(r)
    ELSE unknown_property("calendar", cfg, r)

RECURSIVE handle_calendar_properties(_, _, _)
handle_calendar_properties(props, cfg, r) ==
    IF props = <<>> THEN Ok(r)
    ELSE LET step == calendar_property(Head(props), cfg, r)
         IN  IF step.ok
             THEN handle_calendar_properties(Tail(props), cfg, step.res)
             ELSE step

timezone_property(p, cfg, r) ==
    IF p.name = n_TZID
        THEN Ok(r \o build_property(p.name, p.params, p.value))
    ELSE unknown_property("timezone", cfg, r)

transition_property(p, cfg, r) ==
    IF p.name \in {n_DTSTART, n_RRULE, n_TZNAME, n_TZOFFSETFROM, n_TZOFFSETTO}
        THEN Ok(r \o build_property(p.name, p.params, p.value))
    ELSE unknown_property("timezone transition", cfg, r)

RECURSIVE timezone_properties(_, _, _)
timezone_properties(props, cfg, r) ==
    IF props = <<>> THEN Ok(r)
    ELSE LET step == timezone_property(Head(props), cfg, r)
         IN  IF step.ok
             THEN timezone_properties(Tail(props), cfg, step.res)
             ELSE step

RECURSIVE transition_properties(_, _, _)
transition_properties(props, cfg, r) ==
    IF props = <<>> THEN Ok(r)
    ELSE LET step == transition_property(Head(props), cfg, r)
         IN  IF step.ok
             THEN transition_properties(Tail(props), cfg, step.res)
             ELSE step

RECURSIVE handle_transitions(_, _, _)
handle_transitions(trs, cfg, r) ==
    IF trs = <<>> THEN Ok(r)
    ELSE LET step == transition_properties(Head(trs).properties, cfg,
                                           r \o s_BEGIN_STANDARD)
         IN  IF step.ok
             THEN handle_transitions(Tail(trs), cfg, step.res \o s_END_STANDARD)
             ELSE step

RECURSIVE handle_timezones(_, _, _)
handle_timezones(tzs, cfg, r) ==
    IF tzs = <<>> THEN Ok(r)
    ELSE LET tz == Head(tzs)
             ps == timezone_properties(tz.properties, cfg, r \o s_BEGIN_VTIMEZONE)
             ts == IF ps.ok THEN handle_transitions(tz.transitions, cfg, ps.res)
                   ELSE ps
         IN  IF ts.ok
             THEN handle_timezones(Tail(tzs), cfg, ts.res \o s_END_VTIMEZONE)
             ELSE ts

(* a slip: the UID is proxied like the timing properties *)
event_property_uid_proxied(p, cfg, r) ==
    IF p.name \in {n_DTSTART, n_DTEND, n_EXDATE, n_EXRULE, n_RDATE, n_RRULE,
                   n_SEQUENCE, n_STATUS, n_UID}
        THEN Ok(r \o build_property(p.name, p.params, p.value))
    ELSE IF p.name \in {n_CREATED, n_DTSTAMP, n_DESCRIPTION, n_LAST_MODIFIED,
                        n_LOCATION, n_SUMMARY, n_URL}
        THEN Ok(r)
    ELSE unknown_property("event", cfg, r)

(* a slip: DESCRIPTION is proxied instead of censored *)
event_property_description_proxied(p, cfg, r) ==
    IF p.name \in {n_DTSTART, n_DTEND, n_EXDATE, n_EXRULE, n_RDATE, n_RRULE,
                   n_SEQUENCE, n_STATUS, n_DESCRIPTION}
        THEN Ok(r \o build_property(p.name, p.params, p.value))
    ELSE IF p.name = n_UID
        THEN IF p.value # None
             THEN Ok(r \o s_UID_COLON \o hash_uid(cfg.seed, p.value[1]) \o <<"\n">>)
             ELSE Ok(r)
    ELSE IF p.name \in {n_CREATED, n_DTSTAMP, n_LAST_MODIFIED,
                        n_LOCATION, n_SUMMARY, n_URL}
        THEN Ok(r)
    ELSE unknown_property("event", cfg, r)

event_property(p, cfg, r) ==
    IF p.name \in {n_DTSTART, n_DTEND, n_EXDATE, n_EXRULE, n_RDATE, n_RRULE,
                   n_SEQUENCE, n_STATUS}
        THEN Ok(r \o build_property(p.name, p.params, p.value))
    ELSE IF p.name = n_UID
        THEN IF p.value # None
             THEN Ok(r \o s_UID_COLON \o hash_uid(cfg.seed, p.value[1]) \o <<"\n">>)
             ELSE Ok(r)
    ELSE IF p.name \in {n_CREATED, n_DTSTAMP, n_DESCRIPTION, n_LAST_MODIFIED,
                        n_LOCATION, n_SUMMARY, n_URL}
        THEN Ok(r)
    ELSE unknown_property("event", cfg, r)

RECURSIVE event_properties(_, _, _)
event_properties(props, cfg, r) ==
    IF props = <<>> THEN Ok(r)
    ELSE LET step == event_property(Head(props), cfg, r)
         IN  IF step.ok
             THEN event_properties(Tail(props), cfg, step.res)
             ELSE step

event_header(cfg) ==
    s_BEGIN_VEVENT \o s_SUMMARY_COLON \o cfg.message \o <<"\n">> \o s_DTSTAMP_LINE

RECURSIVE handle_events(_, _, _)
handle_events(evts, cfg, r) ==
    IF evts = <<>> THEN Ok(r)
    ELSE LET step == event_properties(Head(evts).properties, cfg,
                                      r \o event_header(cfg))
         IN  IF step.ok
             THEN handle_events(Tail(evts), cfg, step.res \o s_END_VEVENT)
             ELSE step

(* a slip: the journals are not looked at *)
ensure_supported_without_journals(c, r) ==
    IF c.alarms # <<>> THEN Bail(r, "alarms")
    ELSE IF c.todos # <<>> THEN Bail(r, "todos")
    ELSE IF c.free_busys # <<>> THEN Bail(r, "free_busys")
    ELSE Ok(r \o s_END_VCALENDAR)

(* the four ensure! of generate_ics, in order, then the closing line *)
ensure_supported(c, r) ==
    IF c.alarms # <<>> THEN Bail(r, "alarms")
    ELSE IF c.todos # <<>> THEN Bail(r, "todos")
    ELSE IF c.journals # <<>> THEN Bail(r, "journals")
    ELSE IF c.free_busys # <<>> THEN Bail(r, "free_busys")
    ELSE Ok(r \o s_END_VCALENDAR)

(* ---------------- bin/ics-ignore.rs: the IgnoreMatching service ---------- *)
RECURSIVE ignore_properties(_, _)
ignore_properties(props, r) ==
    IF props = <<>> THEN r
    ELSE ignore_properties(Tail(props),
             r \o lib_build_property(Head(props).name, Head(props).params,
                                     Head(props).value))

ignore_handle_calendar_properties(props, cfg, r) == Ok(ignore_properties(props, r))

RECURSIVE ignore_transitions(_, _)
ignore_transitions(trs, r) ==
    IF trs = <<>> THEN r
    ELSE ignore_transitions(Tail(trs),
             ignore_properties(Head(trs).properties, r \o s_BEGIN_STANDARD)
             \o s_END_STANDARD)

RECURSIVE ignore_timezones(_, _)
ignore_timezones(tzs, r) ==
    IF tzs = <<>> THEN r
    ELSE ignore_timezones(Tail(tzs),
             ignore_transitions(Head(tzs).transitions,
                 ignore_properties(Head(tzs).properties, r \o s_BEGIN_VTIMEZONE))
             \o s_END_VTIMEZONE)

ignore_handle_timezones(tzs, cfg, r) == Ok(ignore_timezones(tzs, r))

(* a slip: only the first property of the event is looked at *)
has_ignored_summary_first_only(e, cfg) ==
    /\ e.properties # <<>>
    /\ e.properties[1].name = n_SUMMARY
    /\ e.properties[1].value = Some(cfg.ignore_if_summary_is)

has_ignored_summary(e, cfg) ==
    \E i \in 1..Len(e.properties) :
        /\ e.properties[i].name = n_SUMMARY
        /\ e.properties[i].value = Some(cfg.ignore_if_summary_is)

RECURSIVE ignore_events(_, _, _)
ignore_events(evts, cfg, r) ==
    IF evts = <<>> THEN r
    ELSE IF has_ignored_summary(Head(evts), cfg)
         THEN ignore_events(Tail(evts), cfg, r)
         ELSE ignore_events(Tail(evts), cfg,
                  ignore_properties(Head(evts).properties, r \o s_BEGIN_VEVENT)
                  \o s_END_VEVENT)

ignore_handle_events(evts, cfg, r) == Ok(ignore_events(evts, cfg, r))

(* ---------------- generate_ics of the configured service ----------------- *)
IsAnonymize(cfg) == cfg.mode = "Anonymize"

header(cfg) == IF IsAnonymize(cfg) THEN s_HEADER_MAIN ELSE s_BEGIN_VCALENDAR

step_calendar_properties(c, cfg, r) ==
    IF IsAnonymize(cfg) THEN handle_calendar_properties(c.properties, cfg, r)
    ELSE ignore_handle_calendar_properties(c.properties, cfg, r)

step_timezones(c, cfg, r) ==
    IF IsAnonymize(cfg) THEN handle_timezones(c.timezones, cfg, r)
    ELSE ignore_handle_timezones(c.timezones, cfg, r)

step_events(c, cfg, r) ==
    IF IsAnonymize(cfg) THEN handle_events(c.events, cfg, r)
    ELSE ignore_handle_events(c.events, cfg, r)

(* anyhow::Result<String>: the document only when every step succeeded *)
generate_ics(c, cfg) ==
    LET a == step_calendar_properties(c, cfg, header(cfg))
        b == IF a.ok THEN step_timezones(c, cfg, a.res) ELSE a
        d == IF b.ok THEN step_events(c, cfg, b.res) ELSE b
        e == IF d.ok THEN ensure_supported(c, d.res) ELSE d
    IN  IF e.ok THEN [ok |-> TRUE, doc |-> Some(e.res), err |-> "none"]
        ELSE [ok |-> FALSE, doc |-> None, err |-> e.err]

(* ---------------- response bodies of do_the_thing ------------------------ *)
s_PATH == <<"P","a","t","h"," ">>

s_NOT_CONFIGURED == <<" ","i","s"," ","n","o","t"," ","c","o","n","f","i","g","u","r","e","d","\n">>

s_PARSE_ERROR == <<"E","r","r","o","r"," ","p","a","r","s","i","n","g"," ","r","e","m","o","t","e"," ","I","C","S",","," ","s","e","e"," ","t","h","e"," ","l","o","g","s"," ","f","o","r"," ","d","e","t","a","i","l","s","\n">>

s_GENERATE_ERROR == <<"E","r","r","o","r"," ","g","e","n","e","r","a","t","i","n","g"," ","l","o","c","a","l"," ","I","C","S",","," ","s","e","e"," ","t","h","e"," ","l","o","g","s"," ","f","o","r"," ","d","e","t","a","i","l","s","\n">>

(* ---------------- names and values of the remote calendars -------------- *)
n_X_WR_CALNAME == <<"X","-","W","R","-","C","A","L","N","A","M","E">>

n_NAME == <<"N","A","M","E">>

n_X_LIC_LOCATION == <<"X","-","L","I","C","-","L","O","C","A","T","I","O","N">>

n_COMMENT == <<"C","O","M","M","E","N","T">>

n_CLASS == <<"C","L","A","S","S">>

n_VALUE == <<"V","A","L","U","E">>

n_LANGUAGE == <<"L","A","N","G","U","A","G","E">>

v_GREGORIAN == <<"G","R","E","G","O","R","I","A","N">>

v_1_0 == <<"1",".","0">>

v_Home == <<"H","o","m","e">>

v_UTC == <<"U","T","C">>

v_CET == <<"C","E","T">>

v_PUBLIC == <<"P","U","B","L","I","C">>

v_Dentist == <<"D","e","n","t","i","s","t">>

v_Busy == <<"B","u","s","y">>

v_abc123 == <<"a","b","c","1","2","3">>

v_s3cr3t == <<"s","3","c","r","3","t">>

v_20240101T090000Z == <<"2","0","2","4","0","1","0","1","T","0","9","0","0","0","0","Z">>

v_DATE_TIME == <<"D","A","T","E","-","T","I","M","E">>

v_en == <<"e","n">>

v_Teeth == <<"T","e","e","t","h">>

(* ---------------- bounds -------------------------------------------------- *)
(* components and properties of a remote calendar, counted together *)
MaxWeight == 4

(* parameters of a rendered property, and values of one parameter *)
MaxParams == 2

MaxParamValues == 2

(* ---------------- the parsed calendar (ical::IcalCalendar) --------------- *)
Property(name, params, value) == [name |-> name, params |-> params, value |-> value]

EmptyCalendar ==
    [properties |-> <<>>, timezones |-> <<>>, events |-> <<>>,
     alarms |-> <<>>, todos |-> <<>>, journals |-> <<>>, free_busys |-> <<>>]

EmptyTimezone == [properties |-> <<>>, transitions |-> <<>>]

EmptyTransition == [properties |-> <<>>]

EmptyEvent == [properties |-> <<>>, alarms |-> <<>>]

CalendarProps ==
    { Property(n_CALSCALE, None, Some(v_GREGORIAN)),
      Property(n_VERSION, None, Some(s_2_0)),
      Property(n_VERSION, None, Some(v_1_0)),
      Property(n_VERSION, None, None),
      Property(n_PRODID, None, Some(v_Home)),
      Property(n_X_WR_CALNAME, None, Some(v_Home)),
      Property(n_NAME, None, Some(v_Home)) }

TimezoneProps ==
    { Property(n_TZID, None, Some(v_UTC)),
      Property(n_X_LIC_LOCATION, None, Some(v_UTC)) }

TransitionProps ==
    { Property(n_TZNAME, None, Some(v_CET)),
      Property(n_COMMENT, None, Some(v_CET)) }

EventProps ==
    { Property(n_DTSTART, Some(<< <<n_VALUE, <<v_DATE_TIME>> >> >>),
               Some(v_20240101T090000Z)),
      Property(n_SUMMARY, None, Some(v_Dentist)),
      Property(n_SUMMARY, None, Some(v_Busy)),
      Property(n_UID, None, Some(v_abc123)),
      Property(n_UID, None, None),
      Property(n_DESCRIPTION, Some(<< <<n_LANGUAGE, <<v_en>> >> >>), Some(v_Teeth)),
      Property(n_CLASS, None, Some(v_PUBLIC)) }

TransitionWeight(tr) == 1 + Len(tr.properties)

RECURSIVE TransitionsWeight(_)
TransitionsWeight(trs) ==
    IF trs = <<>> THEN 0
    ELSE TransitionWeight(Head(trs)) + TransitionsWeight(Tail(trs))

TimezoneWeight(tz) ==
    1 + Len(tz.properties) + TransitionsWeight(tz.transitions)

RECURSIVE TimezonesWeight(_)
TimezonesWeight(tzs) ==
    IF tzs = <<>> THEN 0
    ELSE TimezoneWeight(Head(tzs)) + TimezonesWeight(Tail(tzs))

EventWeight(e) == 1 + Len(e.properties) + Len(e.alarms)

RECURSIVE EventsWeight(_)
EventsWeight(evts) ==
    IF evts = <<>> THEN 0
    ELSE EventWeight(Head(evts)) + EventsWeight(Tail(evts))

Weight(c) ==
    Len(c.properties) + TimezonesWeight(c.timezones) + EventsWeight(c.events)
    + Len(c.alarms) + Len(c.todos) + Len(c.journals) + Len(c.free_busys)

(* the calendars the remote can hold after one more component or property *)
Extensions(c) ==
    {[c EXCEPT !.properties = Append(@, p)] : p \in CalendarProps}
    \cup {[c EXCEPT !.timezones = Append(@, EmptyTimezone)]}
    \cup {[c EXCEPT !.timezones[i].properties = Append(@, p)] :
            i \in 1..Len(c.timezones), p \in TimezoneProps}
    \cup {[c EXCEPT !.timezones[i].transitions = Append(@, EmptyTransition)] :
            i \in 1..Len(c.timezones)}
    \cup UNION {{[c EXCEPT !.timezones[i].transitions[j].properties = Append(@, p)] :
                    j \in 1..Len(c.timezones[i].transitions), p \in TransitionProps} :
                i \in 1..Len(c.timezones)}
    \cup {[c EXCEPT !.events = Append(@, EmptyEvent)]}
    \cup {[c EXCEPT !.events[i].properties = Append(@, p)] :
            i \in 1..Len(c.events), p \in EventProps}
    \cup {[c EXCEPT !.events[i].alarms = Append(@, "VALARM")] :
            i \in 1..Len(c.events)}
    \cup {[c EXCEPT !.alarms = Append(@, "VALARM")],
          [c EXCEPT !.todos = Append(@, "VTODO")],
          [c EXCEPT !.journals = Append(@, "VJOURNAL")],
          [c EXCEPT !.free_busys = Append(@, "VFREEBUSY")]}

(* ---------------- configuration (Config, Cfg) ---------------------------- *)
ConfiguredPath == <<"a">>

OtherPath == <<"b">>

AnonymizeConfig(ignore) ==
    [mode |-> "Anonymize", message |-> v_Busy, seed |-> v_s3cr3t,
     ignore_unknown_properties |-> ignore, ignore_if_summary_is |-> <<>>,
     calendars |-> {ConfiguredPath}]

IgnoreMatchingConfig ==
    [mode |-> "IgnoreMatching", message |-> <<>>, seed |-> <<>>,
     ignore_unknown_properties |-> FALSE, ignore_if_summary_is |-> v_Busy,
     calendars |-> {ConfiguredPath}]

Configs == {AnonymizeConfig(FALSE), AnonymizeConfig(TRUE), IgnoreMatchingConfig}

(* ---------------- the request: do_the_thing ------------------------------ *)
Respond(status, body) == Some([status |-> status, body |-> body])

FetchOutcomes ==
    {"ok", "fetch failed", "status not successful", "no text",
     "not exactly one calendar", "parse failed"}

Init ==
    /\ config \in Configs
    /\ remote = EmptyCalendar
    /\ pc = "idle"
    /\ path = None
    /\ fetched = FALSE
    /\ cal = None
    /\ res = <<>>
    /\ response = None
    /\ prop = None
    /\ rendered = None

(* the remote calendar gains a component or a property *)
RemoteChanges ==
    /\ pc = "idle"
    /\ Weight(remote) < MaxWeight
    /\ \E c \in Extensions(remote) : remote' = c
    /\ UNCHANGED <<config, pc, path, fetched, cal, res, response, prop, rendered>>

(* GET /<path>: the lookup in the configured map *)
Request ==
    /\ pc = "idle"
    /\ \E p \in {ConfiguredPath, OtherPath} :
        /\ path' = Some(p)
        /\ IF p \in config.calendars
           THEN /\ pc' = "fetch"
                /\ response' = None
           ELSE /\ pc' = "responded"
                /\ response' = Respond(404, s_PATH \o p \o s_NOT_CONFIGURED)
    /\ UNCHANGED <<config, remote, fetched, cal, res, prop, rendered>>

(* parse_remote_ics: fetch, status, text, one calendar, parse *)
ParseRemoteIcs ==
    /\ pc = "fetch"
    /\ fetched' = TRUE
    /\ \E outcome \in FetchOutcomes :
        IF outcome = "ok"
        THEN /\ cal' = Some(remote)
             /\ pc' = "calendar_properties"
             /\ res' = <<>>
             /\ response' = None
        ELSE /\ cal' = None
             /\ pc' = "responded"
             /\ res' = <<>>
             /\ response' = Respond(500, s_PARSE_ERROR)
    /\ UNCHANGED <<config, remote, path, prop, rendered>>

(* a slip: the buffer assembled so far is sent as the body of the error *)
GenerateStep_partial_body(at, result, next) ==
    /\ pc = at
    /\ IF result.ok
       THEN /\ pc' = next
            /\ res' = result.res
            /\ response' = IF next = "responded" THEN Respond(200, result.res)
                           ELSE None
       ELSE /\ pc' = "responded"
            /\ res' = <<>>
            /\ response' = Respond(500, result.res)
    /\ UNCHANGED <<config, remote, path, fetched, cal, prop, rendered>>

(* one fallible step of generate_ics; an error ends the request with 500 *)
GenerateStep(at, result, next) ==
    /\ pc = at
    /\ IF result.ok
       THEN /\ pc' = next
            /\ res' = result.res
            /\ response' = IF next = "responded" THEN Respond(200, result.res)
                           ELSE None
       ELSE /\ pc' = "responded"
            /\ res' = <<>>
            /\ response' = Respond(500, s_GENERATE_ERROR)
    /\ UNCHANGED <<config, remote, path, fetched, cal, prop, rendered>>

HandleCalendarProperties ==
    /\ cal # None
    /\ GenerateStep("calendar_properties",
                    step_calendar_properties(cal[1], config, header(config)),
                    "timezones")

HandleTimezones ==
    /\ cal # None
    /\ GenerateStep("timezones", step_timezones(cal[1], config, res), "events")

HandleEvents ==
    /\ cal # None
    /\ GenerateStep("events", step_events(cal[1], config, res), "ensure")

EnsureSupported ==
    /\ cal # None
    /\ GenerateStep("ensure", ensure_supported(cal[1], res), "responded")

(* the response is sent; nothing of the request is kept *)
Finish ==
    /\ pc = "responded"
    /\ pc' = "idle"
    /\ path' = None
    /\ fetched' = FALSE
    /\ cal' = None
    /\ res' = <<>>
    /\ response' = None
    /\ UNCHANGED <<config, remote, prop, rendered>>

Next ==
    \/ RemoteChanges
    \/ Request
    \/ ParseRemoteIcs
    \/ HandleCalendarProperties
    \/ HandleTimezones
    \/ HandleEvents
    \/ EnsureSupported
    \/ Finish

Spec == Init /\ [][Next]_vars

(* ---------------- rendering one property, on its own --------------------- *)
ParamNames == {n_TZID, n_VALUE}

ParamValueChars == {<<"x">>, <<"y">>}

RECURSIVE SeqsUpTo(_, _)
SeqsUpTo(S, n) ==
    IF n = 0 THEN {<<>>}
    ELSE LET shorter == SeqsUpTo(S, n - 1)
         IN  shorter \cup {Append(q, x) : q \in shorter, x \in S}

(* the parser never yields a parameter without a value *)
ParamValues == SeqsUpTo(ParamValueChars, MaxParamValues) \ {<<>>}

Params == {<<n, vs>> : n \in ParamNames, vs \in ParamValues}

RenderInputs ==
    { Property(n, ps, v) :
        n \in {n_NAME, n_DTSTART},
        ps \in {None} \cup {Some(q) : q \in SeqsUpTo(Params, MaxParams)},
        v \in {None, Some(<<>>), Some(<<"v">>)} }

RenderInit ==
    /\ config = IgnoreMatchingConfig
    /\ remote = EmptyCalendar
    /\ pc = "idle"
    /\ path = None
    /\ fetched = FALSE
    /\ cal = None
    /\ res = <<>>
    /\ response = None
    /\ prop \in {Some(p) : p \in RenderInputs}
    /\ rendered = None

(* both routines are applied to the property *)
Render ==
    /\ prop # None
    /\ rendered = None
    /\ rendered' = Some([main |-> build_property(prop[1].name, prop[1].params,
                                                 prop[1].value),
                         lib |-> lib_build_property(prop[1].name, prop[1].params,
                                                    prop[1].value)])
    /\ UNCHANGED <<config, remote, pc, path, fetched, cal, res, response, prop>>

RenderNext == Render

SpecRender == RenderInit /\ [][RenderNext]_vars

(* ======================= the claims ===================================== *)

(* ---------------- the line format, stated from the wire format ----------- *)
(* a1,a2,...,an: the elements with the separator between neighbours *)
Joined(vs, sep) ==
    LET RECURSIVE Upto(_)
        Upto(k) == IF k = 0 THEN <<>>
                   ELSE IF k = 1 THEN vs[1]
                   ELSE Upto(k - 1) \o sep \o vs[k]
    IN  Upto(Len(vs))

(* NAME[;PARAM=VAL[,VAL2,...]]*:VALUE, one newline *)
WireLine(p) ==
    LET ps == IF p.params = None THEN <<>> ELSE p.params[1]
        RECURSIVE ParamsUpto(_)
        ParamsUpto(k) ==
            IF k = 0 THEN <<>>
            ELSE ParamsUpto(k - 1) \o <<";">> \o ps[k][1] \o <<"=">>
                 \o Joined(ps[k][2], <<",">>)
    IN  p.name \o ParamsUpto(Len(ps)) \o <<":">>
        \o (IF p.value = None THEN <<>> ELSE p.value[1]) \o <<"\n">>

ExampleProperty ==
    Property(n_NAME, Some(<< <<n_TZID, << <<"x">>, <<"y">> >> >> >>), Some(<<"v">>))

ExampleLine ==
    <<"N","A","M","E",";","T","Z","I","D","=","x",",","y",":","v","\n">>

(* C9: build_property of main.rs and of lib.rs both render a property as    *)
(* NAME, then ;PARAM= and the comma-joined values for each parameter in     *)
(* order, then ':', the value (empty when missing) and one newline, with no *)
(* other character; [("TZID",["x","y"])] and "v" give NAME;TZID=x,y:v\n.    *)
C9_BothRoutinesRenderWireLine ==
    rendered # None =>
        /\ rendered[1].main = WireLine(prop[1])
        /\ rendered[1].lib = WireLine(prop[1])
        /\ prop[1] = ExampleProperty =>
              /\ rendered[1].main = ExampleLine
              /\ rendered[1].lib = ExampleLine

(* the routine of main.rs alone does render the wire format *)
MainRoutineRendersWireLine ==
    rendered # None =>
        /\ rendered[1].main = WireLine(prop[1])
        /\ prop[1] = ExampleProperty => rendered[1].main = ExampleLine

(* ---------------- reading a document back -------------------------------- *)
NewlinesOf(doc) == {i \in 1..Len(doc) : doc[i] = "\n"}

(* the lines of a document, without their newline *)
Lines(doc) ==
    LET nls == NewlinesOf(doc)
        EndOf(k) == CHOOSE i \in nls : Cardinality({j \in nls : j <= i}) = k
        StartOf(k) == IF k = 1 THEN 1 ELSE EndOf(k - 1) + 1
        whole == [k \in 1..Cardinality(nls) |-> SubSeq(doc, StartOf(k), EndOf(k) - 1)]
        last == IF nls = {} THEN 0 ELSE EndOf(Cardinality(nls))
    IN  IF last < Len(doc) THEN Append(whole, SubSeq(doc, last + 1, Len(doc)))
        ELSE whole

Line(s) == SubSeq(s, 1, Len(s) - 1)

(* the line is a property line of that name *)
HasName(line, name) ==
    /\ Len(line) > Len(name)
    /\ SubSeq(line, 1, Len(name)) = name
    /\ line[Len(name) + 1] \in {":", ";"}

RECURSIVE BlocksFrom(_, _, _, _, _)
BlocksFrom(lines, i, inside, cur, acc) ==
    IF i > Len(lines) THEN acc
    ELSE IF lines[i] = Line(s_BEGIN_VEVENT)
        THEN BlocksFrom(lines, i + 1, TRUE, <<>>, acc)
    ELSE IF lines[i] = Line(s_END_VEVENT)
        THEN BlocksFrom(lines, i + 1, FALSE, <<>>, Append(acc, cur))
    ELSE IF inside THEN BlocksFrom(lines, i + 1, TRUE, Append(cur, lines[i]), acc)
    ELSE BlocksFrom(lines, i + 1, FALSE, cur, acc)

(* the property lines of each VEVENT block of a document, in order *)
EventBlocks(doc) == BlocksFrom(Lines(doc), 1, FALSE, <<>>, <<>>)

SelectLines(lines, name) == SelectSeq(lines, LAMBDA l : HasName(l, name))

EndsWith(s, suffix) ==
    /\ Len(s) >= Len(suffix)
    /\ SubSeq(s, Len(s) - Len(suffix) + 1, Len(s)) = suffix

(* ---------------- the request that has been answered --------------------- *)
Answered == pc = "responded" /\ response # None

Transcoded == Answered /\ cal # None

Status == response[1].status

Body == response[1].body

Anonymizing == config.mode = "Anonymize"

Ignoring == config.mode = "IgnoreMatching"

Strict == Anonymizing /\ ~config.ignore_unknown_properties

Lenient == Anonymizing /\ config.ignore_unknown_properties

Unsupported(c) ==
    c.alarms # <<>> \/ c.todos # <<>> \/ c.journals # <<>> \/ c.free_busys # <<>>

(* C1: a calendar with a non-empty alarms, to-dos, journals or free-busy   *)
(* list makes generate_ics return an error and no document, in the         *)
(* Anonymize and in the IgnoreMatching service, whatever its properties,   *)
(* timezones and events are.                                               *)
C1_UnsupportedComponentRejected ==
    (Transcoded /\ Unsupported(cal[1])) =>
        /\ Status = 500
        /\ Body = s_GENERATE_ERROR
        /\ ~generate_ics(cal[1], config).ok
        /\ generate_ics(cal[1], config).doc = None

C1_Witness ==
    /\ Transcoded
    /\ Ignoring
    /\ cal[1].journals # <<>>
    /\ cal[1].alarms = <<>>
    /\ cal[1].events # <<>>
    /\ Status = 500

(* ---------------- the policy table, per component kind ------------------- *)
CalendarTable(name) ==
    \/ name \in {n_CALSCALE, n_METHOD, n_PRODID, n_REFRESH_INTERVAL, n_VERSION}
    \/ (Len(name) >= 2 /\ name[1] = "X" /\ name[2] = "-")

TimezoneTable(name) == name = n_TZID

TransitionTable(name) ==
    name \in {n_DTSTART, n_RRULE, n_TZNAME, n_TZOFFSETFROM, n_TZOFFSETTO}

EventPassed == {n_DTSTART, n_DTEND, n_EXDATE, n_EXRULE, n_RDATE, n_RRULE,
                n_SEQUENCE, n_STATUS}

EventDropped == {n_CREATED, n_DTSTAMP, n_DESCRIPTION, n_LAST_MODIFIED,
                 n_LOCATION, n_SUMMARY, n_URL}

EventTable(name) == name \in EventPassed \cup EventDropped \cup {n_UID}

Known(props, Table(_)) == SelectSeq(props, LAMBDA p : Table(p.name))

(* the calendar without the properties whose name is in no table *)
WithoutUnknown(c) ==
    [c EXCEPT
       !.properties = Known(@, CalendarTable),
       !.timezones = [i \in 1..Len(@) |->
           [@[i] EXCEPT
              !.properties = Known(@, TimezoneTable),
              !.transitions = [j \in 1..Len(@) |->
                  [@[j] EXCEPT !.properties = Known(@, TransitionTable)]]]],
       !.events = [i \in 1..Len(@) |->
           [@[i] EXCEPT !.properties = Known(@, EventTable)]]]

HasUnknown(c) == WithoutUnknown(c) # c

(* C2: in Strict mode a property whose name is in no policy table of its   *)
(* component kind makes generate_ics fail for the whole request; in        *)
(* Lenient mode the same input gives what the input without that property  *)
(* gives, and the unknown property is no reason to fail.                   *)
C2_UnknownPropertyStrictLenient ==
    /\ (Transcoded /\ Strict /\ HasUnknown(cal[1])) =>
          (Status = 500 /\ Body = s_GENERATE_ERROR)
    /\ (Transcoded /\ Lenient) =>
          LET without == generate_ics(WithoutUnknown(cal[1]), config)
          IN  /\ (Status = 200) = without.ok
              /\ without.ok => Body = without.doc[1]
              /\ ~Unsupported(cal[1]) => Status = 200

C2_Witness ==
    /\ Transcoded
    /\ Lenient
    /\ Len(cal[1].events) = 1
    /\ \E i \in 1..Len(cal[1].events[1].properties) :
          cal[1].events[1].properties[i].name = n_CLASS
    /\ \E i \in 1..Len(cal[1].events[1].properties) :
          cal[1].events[1].properties[i].name = n_DTSTART
    /\ Status = 200

HasProperty(e, name) ==
    \E i \in 1..Len(e.properties) : e.properties[i].name = name

(* the values of the UID properties of an event that carry a value *)
UidValues(e) ==
    LET uids == SelectSeq(e.properties,
                          LAMBDA p : p.name = n_UID /\ p.value # None)
    IN  [i \in 1..Len(uids) |-> uids[i].value[1]]

(* C3: in Anonymize mode, in every rendered event of a successful          *)
(* transcode, every SUMMARY line has exactly the configured message as     *)
(* value, and every UID property with a value is rendered as the           *)
(* lower-case hex HMAC of that value under the configured seed, never as   *)
(* the original value.                                                     *)
C3_SummaryMaskedUidHashed ==
    (Transcoded /\ Anonymizing /\ Status = 200) =>
        LET blocks == EventBlocks(Body)
            evts == cal[1].events
        IN  /\ Len(blocks) = Len(evts)
            /\ \A k \in 1..Len(evts) :
                 LET uids == UidValues(evts[k])
                 IN  /\ SelectLines(blocks[k], n_SUMMARY)
                          = <<s_SUMMARY_COLON \o config.message>>
                     /\ SelectLines(blocks[k], n_UID)
                          = [i \in 1..Len(uids) |->
                               s_UID_COLON \o hash_uid(config.seed, uids[i])]
                     /\ \A i \in 1..Len(uids), j \in 1..Len(blocks[k]) :
                          /\ blocks[k][j] # s_UID_COLON \o uids[i]
                          /\ hash_uid(config.seed, uids[i]) # uids[i]
                          /\ \A c \in 1..Len(hash_uid(config.seed, uids[i])) :
                               hash_uid(config.seed, uids[i])[c] \in
                                 {HexDigits[d] : d \in 1..16}

C3_Witness ==
    /\ Transcoded
    /\ Anonymizing
    /\ Status = 200
    /\ Len(cal[1].events) = 1
    /\ cal[1].events[1].properties
         = <<Property(n_SUMMARY, None, Some(v_Dentist)),
             Property(n_UID, None, Some(v_abc123))>>

(* the event has a SUMMARY whose value is the sentinel *)
MatchesSentinel(e) ==
    \E i \in 1..Len(e.properties) :
        e.properties[i] = [e.properties[i] EXCEPT
                             !.name = n_SUMMARY,
                             !.value = Some(config.ignore_if_summary_is)]

WithoutMatching(c) ==
    [c EXCEPT !.events = SelectSeq(@, LAMBDA e : ~MatchesSentinel(e))]

(* C4: in IgnoreMatching mode an event with a SUMMARY equal to the         *)
(* sentinel contributes no output line at all (no BEGIN:VEVENT, property   *)
(* line or END:VEVENT), wherever the SUMMARY sits among its properties,    *)
(* and the events after it are still processed.                            *)
C4_MatchingEventLeavesNoLine ==
    (Transcoded /\ Ignoring /\ Status = 200) =>
        /\ Len(EventBlocks(Body)) = Len(WithoutMatching(cal[1]).events)
        /\ Body = generate_ics(WithoutMatching(cal[1]), config).doc[1]
        /\ \A i \in 1..Len(Lines(Body)) :
             Lines(Body)[i] = Line(s_BEGIN_VEVENT)
               => Cardinality({j \in 1..i : Lines(Body)[j] = Line(s_BEGIN_VEVENT)})
                    <= Len(WithoutMatching(cal[1]).events)

C4_Witness ==
    /\ Transcoded
    /\ Ignoring
    /\ Status = 200
    /\ Len(cal[1].events) = 2
    /\ Len(cal[1].events[1].properties) = 2
    /\ cal[1].events[1].properties[1].name = n_DTSTART
    /\ cal[1].events[1].properties[2] = Property(n_SUMMARY, None, Some(v_Busy))
    /\ Len(EventBlocks(Body)) = 1

(* C5: in IgnoreMatching mode an event whose SUMMARY differs from the      *)
(* sentinel, or that has none, is rendered as a VEVENT block that holds    *)
(* its permitted properties unchanged and holds no SUMMARY line.           *)
C5_KeptEventHasNoSummary ==
    (Transcoded /\ Ignoring /\ Status = 200) =>
        LET blocks == EventBlocks(Body)
            kept == WithoutMatching(cal[1]).events
        IN  /\ Len(blocks) = Len(kept)
            /\ \A k \in 1..Len(kept) :
                 /\ SelectLines(blocks[k], n_SUMMARY) = <<>>
                 /\ \A i \in 1..Len(kept[k].properties) :
                      kept[k].properties[i].name \in EventPassed =>
                        \E j \in 1..Len(blocks[k]) :
                          blocks[k][j] = Line(WireLine(kept[k].properties[i]))

(* C6: GET /<path> ends in exactly one of: 404 when the path is not        *)
(* configured, with no fetch attempted; 500 with a fixed generic body when *)
(* the fetch, the parse or the transcoding fails, the body holding no part *)
(* of the partly assembled document; 200 with the complete document,       *)
(* ending in END:VCALENDAR, when all three succeed.                        *)
C6_ThreeOutcomes ==
    /\ pc # "responded" => response = None
    /\ pc = "responded" =>
         /\ response # None
         /\ path # None
         /\ \/ /\ path[1] \notin config.calendars
               /\ Status = 404
               /\ ~fetched
               /\ cal = None
            \/ /\ path[1] \in config.calendars
               /\ fetched
               /\ Status = 500
               /\ \/ cal = None /\ Body = s_PARSE_ERROR
                  \/ /\ cal # None
                     /\ ~generate_ics(cal[1], config).ok
                     /\ Body = s_GENERATE_ERROR
            \/ /\ path[1] \in config.calendars
               /\ fetched
               /\ Status = 200
               /\ cal # None
               /\ generate_ics(cal[1], config).ok
               /\ Body = generate_ics(cal[1], config).doc[1]
               /\ starts_with(Body, s_BEGIN_VCALENDAR)
               /\ EndsWith(Body, s_END_VCALENDAR)

C6_Witness ==
    /\ Transcoded
    /\ Status = 500
    /\ Strict
    /\ Len(cal[1].events) = 2
    /\ HasProperty(cal[1].events[2], n_CLASS)

VersionLines(doc) == SelectLines(Lines(doc), n_VERSION)

(* a calendar-level VERSION whose value is not exactly "2.0" *)
OtherVersion(c) ==
    \E i \in 1..Len(c.properties) :
        /\ c.properties[i].name = n_VERSION
        /\ c.properties[i].value # Some(s_2_0)

Acceptable(c) == ~HasUnknown(c) /\ ~Unsupported(c)

UidWithoutValue(c) ==
    \E k \in 1..Len(c.events) : \E i \in 1..Len(c.events[k].properties) :
        /\ c.events[k].properties[i].name = n_UID
        /\ c.events[k].properties[i].value = None

(* C8: a UID property without a value makes the filtering of its event    *)
(* fail and aborts the whole transcode; it is never left out of a          *)
(* successful output.                                                      *)
C8_UidWithoutValueRejected ==
    (Transcoded /\ Anonymizing /\ UidWithoutValue(cal[1])) =>
        (Status = 500 /\ Body = s_GENERATE_ERROR)

(* ---------------- the censored fields ------------------------------------ *)
CalendarCensored(name) ==
    \/ name \in {n_METHOD, n_PRODID, n_REFRESH_INTERVAL}
    \/ (Len(name) >= 2 /\ name[1] = "X" /\ name[2] = "-")

EventCensored(name) == name \in EventDropped

OtherParams == {None, Some(<< <<n_VALUE, <<v_abc123, v_Teeth>> >> >>)}

OtherValues == {None, Some(v_abc123)}

(* the property itself, and the same name with other parameters or value *)
Variants(p) ==
    {p} \cup {Property(p.name, ps, v) : ps \in OtherParams, v \in OtherValues}

Censored(kind, name) ==
    IF kind = "calendar" THEN CalendarCensored(name) ELSE EventCensored(name)

RECURSIVE CensoredVariants(_, _)
CensoredVariants(props, kind) ==
    IF props = <<>> THEN {<<>>}
    ELSE LET heads == IF Censored(kind, Head(props).name) THEN Variants(Head(props))
                      ELSE {Head(props)}
         IN  {<<h>> \o t : h \in heads, t \in CensoredVariants(Tail(props), kind)}

EventVariants(e) ==
    {[properties |-> ps, alarms |-> as] :
        ps \in CensoredVariants(e.properties, "event"),
        as \in {e.alarms, <<>>, <<"VALARM">>}}

RECURSIVE EventsVariants(_)
EventsVariants(evts) ==
    IF evts = <<>> THEN {<<>>}
    ELSE {<<h>> \o t : h \in EventVariants(Head(evts)), t \in EventsVariants(Tail(evts))}

(* the calendars that differ from c in censored fields only *)
SameButCensored(c) ==
    {[c EXCEPT !.properties = ps, !.events = es] :
        ps \in CensoredVariants(c.properties, "calendar"),
        es \in EventsVariants(c.events)}

(* C10: in Anonymize mode, under one configuration, two calendars that     *)
(* differ only in the values and parameters of dropped properties (event   *)
(* CREATED, DTSTAMP, DESCRIPTION, LAST-MODIFIED, LOCATION, SUMMARY, URL;   *)
(* calendar METHOD, PRODID, REFRESH-INTERVAL, X- names) and in the alarms  *)
(* of events give the same result: both fail, or both return the same      *)
(* document.                                                               *)
C10_CensoredFieldsDoNotInterfere ==
    (Transcoded /\ Anonymizing) =>
        \A other \in SameButCensored(cal[1]) :
            LET r == generate_ics(other, config)
            IN  /\ (Status = 200) = r.ok
                /\ r.ok => Body = r.doc[1]

C10_Witness ==
    /\ Transcoded
    /\ Anonymizing
    /\ Status = 200
    /\ cal[1].properties = <<Property(n_X_WR_CALNAME, None, Some(v_Home))>>
    /\ Len(cal[1].events) = 1
    /\ cal[1].events[1].properties
         = <<Property(n_DESCRIPTION, Some(<< <<n_LANGUAGE, <<v_en>> >> >>),
                      Some(v_Teeth))>>
    /\ Cardinality(SameButCensored(cal[1])) > 1

====
